---- MODULE Spec2Model ----
(***************************************************************************)
(* Credit-Management backend (src/backend/server.py): a FastAPI service    *)
(* over two MongoDB collections, db.customers and db.credit_entries.       *)
(*                                                                         *)
(* Every `await db.<collection>.<call>` of a handler is one atomic step    *)
(* of the store; the handler's synchronous code up to the next await (or   *)
(* to its return / raise) belongs to the same step.  Requests run          *)
(* concurrently on the event loop, so steps of different requests          *)
(* interleave freely.  A store call may raise (motor/pymongo error); the   *)
(* exception is not caught by any handler and FastAPI answers 500.         *)
(*                                                                         *)
(* Amounts are Python floats in the code; the model uses integers (values  *)
(* whose sums are exact in floating point).  Optional[...] values are      *)
(* encoded as sequences of length at most one: None is << >>.              *)
(***************************************************************************)
EXTENDS Integers, Sequences, FiniteSets, TLC

\* ------------------------------------------------------------------ bounds

\* number of requests that may be in flight at the same time
MaxRequests == 2
\* amounts and paid amounts of the requests are drawn from 0..MaxAmount
MaxAmount == 2
\* number of requests a run of concurrent requests receives
MaxStarted == 3
\* number of requests a run of one request at a time receives, with inputs
\* that cover every field of a credit entry
MaxSeqStarted == 3
\* number of requests a run of one request at a time receives, with entries
\* of different dates
MaxChainStarted == 4
\* number of requests a run of one request at a time receives, with inputs
\* that cover every field of a customer
MaxCustomersStarted == 3
\* number of requests a run of one request at a time receives, with partial
\* updates that supply zero, false or nothing
MaxUpdatesStarted == 4

\* to_list(1000): the fetch cap of every find() of the handlers
FetchCap == 1000

Requests == 1..MaxRequests

None == << >>
Some(v) == <<v>>

VARIABLES
    customers,        \* db.customers: id -> document (without its id field)
    credit_entries,   \* db.credit_entries: id -> document (without its id field)
    uuid_customers,   \* number of customer ids generated so far
    uuid_entries,     \* number of entry ids generated so far
    req,              \* per request slot: position in its handler and its locals
    response,         \* the response the last step sent, if it sent one
    started,          \* number of requests received so far
    acknowledged,     \* ids of the entries whose creation was answered with 200
    cascade_failed,   \* the delete_many of some delete-customer has raised
    raced             \* some delete-customer has removed a customer between the
                      \* existence check and the insert of a create-entry for it

vars == <<customers, credit_entries, uuid_customers, uuid_entries, req, response,
          started, acknowledged, cascade_failed, raced>>

\* uuid4 identifiers: customers and entries are numbered in the order their ids
\* are generated, an id is never generated twice.  A request may name any id
\* generated so far, or an id that was never generated (all of those behave
\* alike: they match no document).
CustomerIds == 1..(uuid_customers + 1)
EntryIds == 1..(uuid_entries + 1)

\* ------------------------------------------------------------ pure helpers

RECURSIVE SumOver(_, _, _)
\* Python's sum(doc[field] for doc in docs), docs given as a set of ids of store
SumOver(store, ids, field) ==
    IF ids = {} THEN 0
    ELSE LET i == CHOOSE x \in ids : TRUE
         IN store[i][field] + SumOver(store, ids \ {i}, field)

RECURSIVE FirstN(_, _)
\* cursor.to_list(n): at most n documents, in the store's natural (id) order
FirstN(ids, n) ==
    IF ids = {} \/ n = 0 THEN {}
    ELSE LET i == CHOOSE x \in ids : \A y \in ids : x <= y
         IN {i} \cup FirstN(ids \ {i}, n - 1)

\* db.credit_entries.find({"customer_id": customer_id}): the matching ids
find_by_customer(customer_id) ==
    {e \in DOMAIN credit_entries : credit_entries[e].customer_id = customer_id}

\* datetime.utcnow(): a logical clock, the number of documents created so far
utcnow == uuid_customers + uuid_entries

\* {"$set": update}: the document with the fields of update replaced
set_fields(doc, update) ==
    [f \in DOMAIN doc |-> IF f \in DOMAIN update THEN update[f] ELSE doc[f]]

\* a store without document id
remove(store, id) == [i \in DOMAIN store \ {id} |-> store[i]]

\* a store with document doc added under id
insert(store, id, doc) == [i \in DOMAIN store \cup {id} |-> IF i = id THEN doc ELSE store[i]]

\* a document as the response models carry it, with its id
with_id(id, doc) ==
    [f \in DOMAIN doc \cup {"id"} |-> IF f = "id" THEN id ELSE doc[f]]

\* mutant: the sort is ascending
sort_desc_ascending(store, ids, field) ==
    {s \in [1..Cardinality(ids) -> ids] :
        /\ \A i, j \in DOMAIN s : i # j => s[i] # s[j]
        /\ \A i, j \in DOMAIN s : i < j => store[s[i]][field] <= store[s[j]][field]}

\* the sequences over ids that are ordered by field descending (documents
\* with equal keys come in an order the store chooses)
sort_desc(store, ids, field) ==
    {s \in [1..Cardinality(ids) -> ids] :
        /\ \A i, j \in DOMAIN s : i # j => s[i] # s[j]
        /\ \A i, j \in DOMAIN s : i < j => store[s[i]][field] >= store[s[j]][field]}

\* the three cached totals of customer c are the sums over its stored entries
totals_match(c) ==
    /\ customers[c].total_credit = SumOver(credit_entries, find_by_customer(c), "amount")
    /\ customers[c].total_paid = SumOver(credit_entries, find_by_customer(c), "paid_amount")
    /\ customers[c].outstanding_balance =
           customers[c].total_credit - customers[c].total_paid

\* customer c is stored with cached totals that differ from the sums
drifted(c) == c \in DOMAIN customers /\ ~totals_match(c)

\* ------------------------------------------------------------ request slots

Idle ==
    [pc |-> "idle", op |-> "none", customer_id |-> 0, entry_id |-> 0,
     customer |-> None, entry |-> None,
     entry_update |-> << >>, payment |-> << >>, update_data |-> << >>,
     updated_entry |-> None,
     total_credit |-> 0, total_paid |-> 0, outstanding_balance |-> 0,
     total_customers |-> 0, total_credit_entries |-> 0,
     status |-> 0, body |-> << >>, at |-> "", solo |-> TRUE, drift |-> FALSE]

\* Request r takes a step that leaves it as rec.  A handler that returned or
\* raised (rec.pc = "done") hands rec to the client as the response and frees
\* its slot; response shows what the last step sent.  The step is seen by every
\* other request in progress: solo records that no other request has taken a
\* step since the request began.
Step(r, rec) ==
    /\ req' = [q \in Requests |->
                IF q = r THEN (IF rec.pc = "done" THEN Idle ELSE rec)
                ELSE IF req[q].pc # "idle" THEN [req[q] EXCEPT !.solo = FALSE]
                ELSE req[q]]
    /\ response' = IF rec.pc = "done" THEN rec ELSE Idle
    /\ started' = IF req[r].pc = "idle" THEN started + 1 ELSE started
    /\ acknowledged' =
         IF rec.pc = "done" /\ rec.op = "create_credit_entry" /\ rec.status = 200
         THEN acknowledged \cup {rec.entry_id}
         ELSE acknowledged
    /\ cascade_failed' = (cascade_failed \/ (rec.pc = "done" /\ rec.at = "delete_many"))
    /\ raced' = (\/ raced
                 \/ /\ req[r].pc = "idle"
                    /\ rec.op = "delete_customer"
                    /\ rec.pc = "delete_many"
                    /\ \E q \in Requests \ {r} :
                          /\ req[q].op = "create_credit_entry"
                          /\ req[q].pc = "insert_one"
                          /\ req[q].customer_id = rec.customer_id)

\* the handler returns (or raises HTTPException): the response is ready
Respond(rec, status, body) ==
    [rec EXCEPT !.pc = "done", !.status = status, !.body = body]

Init ==
    /\ customers = << >>
    /\ credit_entries = << >>
    /\ uuid_customers = 0
    /\ uuid_entries = 0
    /\ req = [r \in Requests |-> Idle]
    /\ response = Idle
    /\ started = 0
    /\ acknowledged = {}
    /\ cascade_failed = FALSE
    /\ raced = FALSE

\* ------------------------------------------------------- update_customer_totals

\* mutant: total_paid summed over the wrong field
update_customer_totals_find_paid_from_amount(r) ==
    /\ req[r].pc = "totals_find"
    /\ LET entries == FirstN(find_by_customer(req[r].customer_id), FetchCap)
           total_credit == SumOver(credit_entries, entries, "amount")
           total_paid == SumOver(credit_entries, entries, "amount")
       IN Step(r, [req[r] EXCEPT !.pc = "totals_update",
                                 !.total_credit = total_credit,
                                 !.total_paid = total_paid,
                                 !.outstanding_balance = total_credit - total_paid])
    /\ UNCHANGED <<customers, credit_entries, uuid_customers, uuid_entries>>

\* mutant: the totals are accumulated on the cached values instead of being
\* recomputed from the entries (a created entry adds its amount)
update_customer_totals_find_incremental(r) ==
    /\ req[r].pc = "totals_find"
    /\ LET c == req[r].customer_id
           entries == FirstN(find_by_customer(c), FetchCap)
           cached == IF c \in DOMAIN customers THEN customers[c].total_credit ELSE 0
           total_credit == IF req[r].op = "create_credit_entry"
                           THEN cached + req[r].update_data.amount
                           ELSE SumOver(credit_entries, entries, "amount")
           total_paid == SumOver(credit_entries, entries, "paid_amount")
       IN Step(r, [req[r] EXCEPT !.pc = "totals_update",
                                 !.total_credit = total_credit,
                                 !.total_paid = total_paid,
                                 !.outstanding_balance = total_credit - total_paid])
    /\ UNCHANGED <<customers, credit_entries, uuid_customers, uuid_entries>>

\* mutant: after a partial update the new amount is added to the cached credit
\* and the old amount is not taken off
update_customer_totals_find_adds_amount(r) ==
    /\ req[r].pc = "totals_find"
    /\ LET c == req[r].customer_id
           entries == FirstN(find_by_customer(c), FetchCap)
           total_credit == IF /\ req[r].op = "update_credit_entry"
                              /\ "amount" \in DOMAIN req[r].update_data
                              /\ c \in DOMAIN customers
                           THEN customers[c].total_credit + req[r].update_data.amount
                           ELSE SumOver(credit_entries, entries, "amount")
           total_paid == SumOver(credit_entries, entries, "paid_amount")
       IN Step(r, [req[r] EXCEPT !.pc = "totals_update",
                                 !.total_credit = total_credit,
                                 !.total_paid = total_paid,
                                 !.outstanding_balance = total_credit - total_paid])
    /\ UNCHANGED <<customers, credit_entries, uuid_customers, uuid_entries>>

\* mutant: the sums are added to the cached totals
update_customer_totals_find_accumulates(r) ==
    /\ req[r].pc = "totals_find"
    /\ LET c == req[r].customer_id
           entries == FirstN(find_by_customer(c), FetchCap)
           stored == c \in DOMAIN customers
           total_credit == (IF stored THEN customers[c].total_credit ELSE 0)
                           + SumOver(credit_entries, entries, "amount")
           total_paid == (IF stored THEN customers[c].total_paid ELSE 0)
                         + SumOver(credit_entries, entries, "paid_amount")
       IN Step(r, [req[r] EXCEPT !.pc = "totals_update",
                                 !.total_credit = total_credit,
                                 !.total_paid = total_paid,
                                 !.outstanding_balance = total_credit - total_paid])
    /\ UNCHANGED <<customers, credit_entries, uuid_customers, uuid_entries>>

\* entries = await db.credit_entries.find({"customer_id": customer_id}).to_list(1000)
\* and the three sums, computed before the next await
update_customer_totals_find(r) ==
    /\ req[r].pc = "totals_find"
    /\ LET entries == FirstN(find_by_customer(req[r].customer_id), FetchCap)
           total_credit == SumOver(credit_entries, entries, "amount")
           total_paid == SumOver(credit_entries, entries, "paid_amount")
       IN Step(r, [req[r] EXCEPT !.pc = "totals_update",
                                 !.total_credit = total_credit,
                                 !.total_paid = total_paid,
                                 !.outstanding_balance = total_credit - total_paid])
    /\ UNCHANGED <<customers, credit_entries, uuid_customers, uuid_entries>>

\* The response of the handler that called update_customer_totals: the two
\* update handlers return CreditEntry(**updated_entry), which raises TypeError
\* (500) when the entry was gone at the second find_one
after_totals(rec) ==
    IF rec.op \in {"update_credit_entry", "update_payment_status"}
    THEN IF rec.updated_entry = None
         THEN [Respond(rec, 500, << >>) EXCEPT !.at = "return"]
         ELSE Respond(rec, 200, rec.updated_entry[1])
    ELSE Respond(rec, 200, rec.body)

\* mutant: the write recomputes the sums from the entries as they are now
update_customer_totals_update_one_recomputes(r) ==
    /\ req[r].pc = "totals_update"
    /\ customers' =
         [c \in DOMAIN customers |->
            IF c = req[r].customer_id
            THEN set_fields(customers[c],
                     [total_credit |-> SumOver(credit_entries, find_by_customer(c), "amount"),
                      total_paid |-> SumOver(credit_entries, find_by_customer(c), "paid_amount"),
                      outstanding_balance |->
                          SumOver(credit_entries, find_by_customer(c), "amount")
                          - SumOver(credit_entries, find_by_customer(c), "paid_amount")])
            ELSE customers[c]]
    /\ Step(r, after_totals(req[r]))
    /\ UNCHANGED <<credit_entries, uuid_customers, uuid_entries>>

\* mutant: outstanding_balance is left out of the $set
update_customer_totals_update_one_two_fields(r) ==
    /\ req[r].pc = "totals_update"
    /\ customers' =
         [c \in DOMAIN customers |->
            IF c = req[r].customer_id
            THEN set_fields(customers[c],
                     [total_credit |-> req[r].total_credit,
                      total_paid |-> req[r].total_paid])
            ELSE customers[c]]
    /\ Step(r, after_totals(req[r]))
    /\ UNCHANGED <<credit_entries, uuid_customers, uuid_entries>>

\* mutant: the write is an upsert, a customer_id that matches no document
\* stores a new one (its other fields shown empty)
update_customer_totals_update_one_upserts(r) ==
    /\ req[r].pc = "totals_update"
    /\ LET totals == [total_credit |-> req[r].total_credit,
                      total_paid |-> req[r].total_paid,
                      outstanding_balance |-> req[r].outstanding_balance]
       IN customers' =
            [c \in DOMAIN customers \cup {req[r].customer_id} |->
               IF c # req[r].customer_id THEN customers[c]
               ELSE IF c \in DOMAIN customers THEN set_fields(customers[c], totals)
               ELSE [name |-> "", phone |-> None, address |-> None, created_at |-> 0,
                     total_credit |-> totals.total_credit,
                     total_paid |-> totals.total_paid,
                     outstanding_balance |-> totals.outstanding_balance]]
    /\ Step(r, after_totals(req[r]))
    /\ UNCHANGED <<credit_entries, uuid_customers, uuid_entries>>

\* await db.customers.update_one({"id": customer_id}, {"$set": {three totals}});
\* no upsert: a customer_id that matches no document writes nothing
update_customer_totals_update_one(r) ==
    /\ req[r].pc = "totals_update"
    /\ customers' =
         [c \in DOMAIN customers |->
            IF c = req[r].customer_id
            THEN set_fields(customers[c],
                     [total_credit |-> req[r].total_credit,
                      total_paid |-> req[r].total_paid,
                      outstanding_balance |-> req[r].outstanding_balance])
            ELSE customers[c]]
    /\ Step(r, after_totals(req[r]))
    /\ UNCHANGED <<credit_entries, uuid_customers, uuid_entries>>

\* ------------------------------------------------------------ customer routes

\* POST /customers: Customer(**customer.dict()) with a fresh id, zero totals
create_customer(r, name, phone, address) ==
    /\ req[r].pc = "idle"
    /\ LET id == uuid_customers + 1
           customer_obj == [name |-> name, phone |-> phone, address |-> address,
                            created_at |-> utcnow,
                            total_credit |-> 0, total_paid |-> 0,
                            outstanding_balance |-> 0]
       IN /\ customers' = insert(customers, id, customer_obj)
          /\ uuid_customers' = id
          /\ Step(r, Respond([Idle EXCEPT !.op = "create_customer", !.customer_id = id],
                             200, customer_obj))
    /\ UNCHANGED <<credit_entries, uuid_entries>>

\* The request body of POST /customers and PUT /customers/{customer_id} passes
\* the validation of CustomerCreate: name is a required str (any str, the empty
\* one included), phone and address are optional
CustomerCreate(body) == body.name # None

\* FastAPI answers a body that fails the validation with 422 before the handler
\* is entered
RequestValidationError(r, op, body) ==
    /\ req[r].pc = "idle"
    /\ ~CustomerCreate(body)
    /\ Step(r, Respond([Idle EXCEPT !.op = op, !.update_data = body], 422, << >>))
    /\ UNCHANGED <<customers, credit_entries, uuid_customers, uuid_entries>>

\* GET /customers: find().sort("created_at", -1).to_list(1000)
get_customers(r) ==
    /\ req[r].pc = "idle"
    /\ \E s \in sort_desc(customers, DOMAIN customers, "created_at") :
          LET found == SubSeq(s, 1, IF Len(s) < FetchCap THEN Len(s) ELSE FetchCap)
          IN Step(r, Respond([Idle EXCEPT !.op = "get_customers"], 200,
                             [i \in DOMAIN found |-> with_id(found[i], customers[found[i]])]))
    /\ UNCHANGED <<customers, credit_entries, uuid_customers, uuid_entries>>

\* GET /customers/{customer_id}
get_customer(r, customer_id) ==
    /\ req[r].pc = "idle"
    /\ LET rec == [Idle EXCEPT !.op = "get_customer", !.customer_id = customer_id]
       IN IF customer_id \in DOMAIN customers
          THEN Step(r, Respond(rec, 200, customers[customer_id]))
          ELSE Step(r, Respond(rec, 404, << >>))
    /\ UNCHANGED <<customers, credit_entries, uuid_customers, uuid_entries>>

\* PUT /customers/{customer_id}: customer = await db.customers.find_one(...)
update_customer_find_one(r, customer_id, customer_update) ==
    /\ req[r].pc = "idle"
    /\ CustomerCreate(customer_update)
    /\ LET rec == [Idle EXCEPT !.op = "update_customer", !.customer_id = customer_id,
                               !.update_data = [name |-> customer_update.name[1],
                                                phone |-> customer_update.phone,
                                                address |-> customer_update.address]]
       IN IF customer_id \in DOMAIN customers
          THEN Step(r, [rec EXCEPT !.pc = "customer_update_one",
                                   !.customer = Some(customers[customer_id])])
          ELSE Step(r, Respond(rec, 404, << >>))
    /\ UNCHANGED <<customers, credit_entries, uuid_customers, uuid_entries>>

\* mutant: the document is replaced by a new Customer built from the body
update_customer_update_one_replaces(r) ==
    /\ req[r].pc = "customer_update_one"
    /\ customers' =
         [c \in DOMAIN customers |->
            IF c = req[r].customer_id
            THEN [name |-> req[r].update_data.name, phone |-> req[r].update_data.phone,
                  address |-> req[r].update_data.address, created_at |-> utcnow,
                  total_credit |-> 0, total_paid |-> 0, outstanding_balance |-> 0]
            ELSE customers[c]]
    /\ Step(r, [req[r] EXCEPT !.pc = "customer_find_updated"])
    /\ UNCHANGED <<credit_entries, uuid_customers, uuid_entries>>

\* await db.customers.update_one({"id": customer_id}, {"$set": customer_update.dict()});
\* a customer deleted in the meantime matches nothing
update_customer_update_one(r) ==
    /\ req[r].pc = "customer_update_one"
    /\ customers' =
         [c \in DOMAIN customers |->
            IF c = req[r].customer_id
            THEN set_fields(customers[c], req[r].update_data)
            ELSE customers[c]]
    /\ Step(r, [req[r] EXCEPT !.pc = "customer_find_updated"])
    /\ UNCHANGED <<credit_entries, uuid_customers, uuid_entries>>

\* updated_customer = await db.customers.find_one({"id": customer_id});
\* return Customer(**updated_customer), a TypeError (500) when it is None
update_customer_find_updated(r) ==
    /\ req[r].pc = "customer_find_updated"
    /\ IF req[r].customer_id \in DOMAIN customers
       THEN Step(r, Respond(req[r], 200, customers[req[r].customer_id]))
       ELSE Step(r, [Respond(req[r], 500, << >>) EXCEPT !.at = "return"])
    /\ UNCHANGED <<customers, credit_entries, uuid_customers, uuid_entries>>

\* mutant: the cascade is skipped for a customer whose cached credit is 0
delete_customer_delete_one_skips_cascade(r, customer_id) ==
    /\ req[r].pc = "idle"
    /\ LET rec == [Idle EXCEPT !.op = "delete_customer", !.customer_id = customer_id]
       IN IF customer_id \in DOMAIN customers
          THEN /\ customers' = remove(customers, customer_id)
               /\ IF customers[customer_id].total_credit = 0
                  THEN Step(r, Respond(rec, 200, << >>))
                  ELSE Step(r, [rec EXCEPT !.pc = "delete_many"])
          ELSE /\ customers' = customers
               /\ Step(r, Respond(rec, 404, << >>))
    /\ UNCHANGED <<credit_entries, uuid_customers, uuid_entries>>

\* DELETE /customers/{customer_id}: result = await db.customers.delete_one(...)
delete_customer_delete_one(r, customer_id) ==
    /\ req[r].pc = "idle"
    /\ LET rec == [Idle EXCEPT !.op = "delete_customer", !.customer_id = customer_id]
       IN IF customer_id \in DOMAIN customers
          THEN /\ customers' = remove(customers, customer_id)
               /\ Step(r, [rec EXCEPT !.pc = "delete_many"])
          ELSE /\ customers' = customers
               /\ Step(r, Respond(rec, 404, << >>))
    /\ UNCHANGED <<credit_entries, uuid_customers, uuid_entries>>

\* mutant: the cascade is left out
delete_customer_delete_many_nothing(r) ==
    /\ req[r].pc = "delete_many"
    /\ credit_entries' = credit_entries
    /\ Step(r, Respond(req[r], 200, << >>))
    /\ UNCHANGED <<customers, uuid_customers, uuid_entries>>

\* await db.credit_entries.delete_many({"customer_id": customer_id})
delete_customer_delete_many(r) ==
    /\ req[r].pc = "delete_many"
    /\ credit_entries' =
         [e \in DOMAIN credit_entries \ find_by_customer(req[r].customer_id)
            |-> credit_entries[e]]
    /\ Step(r, Respond(req[r], 200, << >>))
    /\ UNCHANGED <<customers, uuid_customers, uuid_entries>>

\* -------------------------------------------------------- credit entry routes

\* mutant: the existence check is left out
create_credit_entry_find_one_unchecked(r, customer_id, amount, description, date, image_data) ==
    /\ req[r].pc = "idle"
    /\ Step(r, [Idle EXCEPT !.op = "create_credit_entry",
                            !.pc = "insert_one",
                            !.customer_id = customer_id,
                            !.drift = drifted(customer_id),
                            !.update_data =
                                [customer_id |-> customer_id, amount |-> amount,
                                 description |-> description, date |-> date,
                                 image_data |-> image_data]])
    /\ UNCHANGED <<customers, credit_entries, uuid_customers, uuid_entries>>

\* POST /credit-entries: customer = await db.customers.find_one({"id": ...})
create_credit_entry_find_one(r, customer_id, amount, description, date, image_data) ==
    /\ req[r].pc = "idle"
    /\ LET rec == [Idle EXCEPT !.op = "create_credit_entry",
                               !.customer_id = customer_id,
                               !.update_data =
                                   [customer_id |-> customer_id, amount |-> amount,
                                    description |-> description, date |-> date,
                                    image_data |-> image_data]]
       IN IF customer_id \in DOMAIN customers
          THEN Step(r, [rec EXCEPT !.pc = "insert_one", !.drift = drifted(customer_id)])
          ELSE Step(r, Respond(rec, 404, << >>))
    /\ UNCHANGED <<customers, credit_entries, uuid_customers, uuid_entries>>

\* mutant: the handler returns after the insert, without update_customer_totals
create_credit_entry_insert_one_returns(r) ==
    /\ req[r].pc = "insert_one"
    /\ LET id == uuid_entries + 1
           entry == req[r].update_data
           entry_obj == [customer_id |-> entry.customer_id, amount |-> entry.amount,
                         description |-> entry.description, date |-> entry.date,
                         image_data |-> entry.image_data,
                         is_paid |-> FALSE, paid_amount |-> 0,
                         created_at |-> utcnow]
       IN /\ credit_entries' = insert(credit_entries, id, entry_obj)
          /\ uuid_entries' = id
          /\ Step(r, Respond([req[r] EXCEPT !.entry_id = id], 200, entry_obj))
    /\ UNCHANGED <<customers, uuid_customers>>

\* entry_obj = CreditEntry(**entry.dict()); await db.credit_entries.insert_one(...)
create_credit_entry_insert_one(r) ==
    /\ req[r].pc = "insert_one"
    /\ LET id == uuid_entries + 1
           entry == req[r].update_data
           entry_obj == [customer_id |-> entry.customer_id, amount |-> entry.amount,
                         description |-> entry.description, date |-> entry.date,
                         image_data |-> entry.image_data,
                         is_paid |-> FALSE, paid_amount |-> 0,
                         created_at |-> utcnow]
       IN /\ credit_entries' = insert(credit_entries, id, entry_obj)
          /\ uuid_entries' = id
          /\ Step(r, [req[r] EXCEPT !.pc = "totals_find", !.entry_id = id,
                                    !.body = entry_obj])
    /\ UNCHANGED <<customers, uuid_customers>>

\* mutant: the filter is left out for description, a missing description is
\* written as null
not_none_but_description(entry_update) ==
    [k \in {f \in DOMAIN entry_update : entry_update[f] # None} \cup {"description"} |->
        IF k = "description" THEN entry_update[k] ELSE entry_update[k][1]]

\* mutant: the filter is "if v", which also drops zero, false and ""
not_none_truthy(entry_update) ==
    [k \in {f \in DOMAIN entry_update :
               /\ entry_update[f] # None
               /\ CASE f = "is_paid" -> entry_update[f][1]
                    [] f = "description" -> entry_update[f][1] # ""
                    [] OTHER -> entry_update[f][1] # 0} |->
        IF k = "description" THEN entry_update[k] ELSE entry_update[k][1]]

\* update_data = {k: v for k, v in entry_update.dict().items() if v is not None}
\* (a stored description is Optional[str] and keeps its encoding)
not_none(entry_update) ==
    [k \in {f \in DOMAIN entry_update : entry_update[f] # None} |->
        IF k = "description" THEN entry_update[k] ELSE entry_update[k][1]]

\* GET /credit-entries/{customer_id}: find(...).sort("date", -1).to_list(1000)
get_credit_entries(r, customer_id) ==
    /\ req[r].pc = "idle"
    /\ \E s \in sort_desc(credit_entries, find_by_customer(customer_id), "date") :
          LET entries == SubSeq(s, 1, IF Len(s) < FetchCap THEN Len(s) ELSE FetchCap)
          IN Step(r, Respond([Idle EXCEPT !.op = "get_credit_entries",
                                          !.customer_id = customer_id],
                             200,
                             [i \in DOMAIN entries |->
                                 with_id(entries[i], credit_entries[entries[i]])]))
    /\ UNCHANGED <<customers, credit_entries, uuid_customers, uuid_entries>>

\* PUT /credit-entries/{entry_id}: entry = await db.credit_entries.find_one(...)
update_credit_entry_find_one(r, entry_id, entry_update) ==
    /\ req[r].pc = "idle"
    /\ LET rec == [Idle EXCEPT !.op = "update_credit_entry", !.entry_id = entry_id]
       IN IF entry_id \in DOMAIN credit_entries
          THEN Step(r, [rec EXCEPT !.pc = "update_one",
                                   !.drift = drifted(credit_entries[entry_id].customer_id),
                                   !.customer_id = credit_entries[entry_id].customer_id,
                                   !.entry = Some(credit_entries[entry_id]),
                                   !.entry_update = entry_update,
                                   !.update_data = not_none(entry_update)])
          ELSE Step(r, Respond(rec, 404, << >>))
    /\ UNCHANGED <<customers, credit_entries, uuid_customers, uuid_entries>>

\* mutant: the handler goes on when no entry was found
update_payment_status_find_one_unchecked(r, entry_id, payment) ==
    /\ req[r].pc = "idle"
    /\ LET rec == [Idle EXCEPT !.op = "update_payment_status", !.entry_id = entry_id]
           found == entry_id \in DOMAIN credit_entries
           customer_id == IF found THEN credit_entries[entry_id].customer_id ELSE 0
       IN Step(r, [rec EXCEPT !.pc = "update_one",
                              !.drift = drifted(customer_id),
                              !.customer_id = customer_id,
                              !.entry = IF found THEN Some(credit_entries[entry_id]) ELSE None,
                              !.payment = payment,
                              !.update_data = [is_paid |-> payment.is_paid,
                                               paid_amount |-> payment.paid_amount]])
    /\ UNCHANGED <<customers, credit_entries, uuid_customers, uuid_entries>>

\* mutant: is_paid is derived from the amounts instead of taken from the body
update_payment_status_find_one_derives_is_paid(r, entry_id, payment) ==
    /\ req[r].pc = "idle"
    /\ LET rec == [Idle EXCEPT !.op = "update_payment_status", !.entry_id = entry_id]
       IN IF entry_id \in DOMAIN credit_entries
          THEN Step(r, [rec EXCEPT !.pc = "update_one",
                                   !.drift = drifted(credit_entries[entry_id].customer_id),
                                   !.customer_id = credit_entries[entry_id].customer_id,
                                   !.entry = Some(credit_entries[entry_id]),
                                   !.payment = payment,
                                   !.update_data = [is_paid |-> payment.paid_amount
                                                                    >= credit_entries[entry_id].amount,
                                                    paid_amount |-> payment.paid_amount]])
          ELSE Step(r, Respond(rec, 404, << >>))
    /\ UNCHANGED <<customers, credit_entries, uuid_customers, uuid_entries>>

\* PATCH /credit-entries/{entry_id}/payment: entry = await ...find_one(...)
update_payment_status_find_one(r, entry_id, payment) ==
    /\ req[r].pc = "idle"
    /\ LET rec == [Idle EXCEPT !.op = "update_payment_status", !.entry_id = entry_id]
       IN IF entry_id \in DOMAIN credit_entries
          THEN Step(r, [rec EXCEPT !.pc = "update_one",
                                   !.drift = drifted(credit_entries[entry_id].customer_id),
                                   !.customer_id = credit_entries[entry_id].customer_id,
                                   !.entry = Some(credit_entries[entry_id]),
                                   !.payment = payment,
                                   !.update_data = [is_paid |-> payment.is_paid,
                                                    paid_amount |-> payment.paid_amount]])
          ELSE Step(r, Respond(rec, 404, << >>))
    /\ UNCHANGED <<customers, credit_entries, uuid_customers, uuid_entries>>

\* mutant: the write also stamps the entry with the time of the write
update_entry_update_one_stamps(r) ==
    /\ req[r].pc = "update_one"
    /\ credit_entries' =
         [e \in DOMAIN credit_entries |->
            IF e = req[r].entry_id
            THEN [set_fields(credit_entries[e], req[r].update_data)
                     EXCEPT !.created_at = utcnow]
            ELSE credit_entries[e]]
    /\ Step(r, [req[r] EXCEPT !.pc = "find_updated"])
    /\ UNCHANGED <<customers, uuid_customers, uuid_entries>>

\* await db.credit_entries.update_one({"id": entry_id}, {"$set": update_data})
\* of both update handlers; an entry deleted in the meantime matches nothing
update_entry_update_one(r) ==
    /\ req[r].pc = "update_one"
    /\ credit_entries' =
         [e \in DOMAIN credit_entries |->
            IF e = req[r].entry_id
            THEN set_fields(credit_entries[e], req[r].update_data)
            ELSE credit_entries[e]]
    /\ Step(r, [req[r] EXCEPT !.pc = "find_updated"])
    /\ UNCHANGED <<customers, uuid_customers, uuid_entries>>

\* updated_entry = await db.credit_entries.find_one({"id": entry_id})
update_entry_find_updated(r) ==
    /\ req[r].pc = "find_updated"
    /\ Step(r, [req[r] EXCEPT
                  !.pc = "totals_find",
                  !.updated_entry =
                      IF req[r].entry_id \in DOMAIN credit_entries
                      THEN Some(with_id(req[r].entry_id, credit_entries[req[r].entry_id]))
                      ELSE None])
    /\ UNCHANGED <<customers, credit_entries, uuid_customers, uuid_entries>>

\* DELETE /credit-entries/{entry_id}: entry = await ...find_one(...)
delete_credit_entry_find_one(r, entry_id) ==
    /\ req[r].pc = "idle"
    /\ LET rec == [Idle EXCEPT !.op = "delete_credit_entry", !.entry_id = entry_id]
       IN IF entry_id \in DOMAIN credit_entries
          THEN Step(r, [rec EXCEPT !.pc = "delete_one",
                                   !.drift = drifted(credit_entries[entry_id].customer_id),
                                   !.customer_id = credit_entries[entry_id].customer_id,
                                   !.entry = Some(credit_entries[entry_id])])
          ELSE Step(r, Respond(rec, 404, << >>))
    /\ UNCHANGED <<customers, credit_entries, uuid_customers, uuid_entries>>

\* result = await db.credit_entries.delete_one({"id": entry_id}); 404 when
\* result.deleted_count == 0
delete_credit_entry_delete_one(r) ==
    /\ req[r].pc = "delete_one"
    /\ IF req[r].entry_id \in DOMAIN credit_entries
       THEN /\ credit_entries' = remove(credit_entries, req[r].entry_id)
            /\ Step(r, [req[r] EXCEPT !.pc = "totals_find"])
       ELSE /\ credit_entries' = credit_entries
            /\ Step(r, Respond(req[r], 404, << >>))
    /\ UNCHANGED <<customers, uuid_customers, uuid_entries>>

\* ------------------------------------------------------------ dashboard stats

\* total_customers = await db.customers.count_documents({})
get_dashboard_stats_count_customers(r) ==
    /\ req[r].pc = "idle"
    /\ Step(r, [Idle EXCEPT !.op = "get_dashboard_stats", !.pc = "count_entries",
                            !.total_customers = Cardinality(DOMAIN customers)])
    /\ UNCHANGED <<customers, credit_entries, uuid_customers, uuid_entries>>

\* total_credit_entries = await db.credit_entries.count_documents({})
get_dashboard_stats_count_entries(r) ==
    /\ req[r].pc = "count_entries"
    /\ Step(r, [req[r] EXCEPT !.pc = "find_customers",
                              !.total_credit_entries = Cardinality(DOMAIN credit_entries)])
    /\ UNCHANGED <<customers, credit_entries, uuid_customers, uuid_entries>>

\* mutant: the sums are derived from the entries instead of the cached totals
get_dashboard_stats_find_from_entries(r) ==
    /\ req[r].pc = "find_customers"
    /\ LET total_credit == SumOver(credit_entries, DOMAIN credit_entries, "amount")
           total_paid == SumOver(credit_entries, DOMAIN credit_entries, "paid_amount")
       IN Step(r, Respond(req[r], 200,
                  [total_customers |-> req[r].total_customers,
                   total_credit_entries |-> req[r].total_credit_entries,
                   total_outstanding |-> total_credit - total_paid,
                   total_credit |-> total_credit,
                   total_paid |-> total_paid]))
    /\ UNCHANGED <<customers, credit_entries, uuid_customers, uuid_entries>>

\* customers = await db.customers.find().to_list(1000), the three sums and the
\* returned object
get_dashboard_stats_find(r) ==
    /\ req[r].pc = "find_customers"
    /\ LET found == FirstN(DOMAIN customers, FetchCap)
       IN Step(r, Respond(req[r], 200,
                  [total_customers |-> req[r].total_customers,
                   total_credit_entries |-> req[r].total_credit_entries,
                   total_outstanding |-> SumOver(customers, found, "outstanding_balance"),
                   total_credit |-> SumOver(customers, found, "total_credit"),
                   total_paid |-> SumOver(customers, found, "total_paid")]))
    /\ UNCHANGED <<customers, credit_entries, uuid_customers, uuid_entries>>

\* ---------------------------------------------------------------- environment

\* mutant: a create-entry whose recalculation raises takes its entry back
StoreFailure_rollback(r, op) ==
    /\ IF req[r].pc = "idle"
       THEN /\ op = "any"
            /\ Step(r, Respond([Idle EXCEPT !.op = op, !.at = "idle"], 500, << >>))
       ELSE /\ op = req[r].op
            /\ Step(r, Respond([req[r] EXCEPT !.at = req[r].pc], 500, << >>))
    /\ credit_entries' =
         IF req[r].pc \in {"totals_find", "totals_update"} /\ op = "create_credit_entry"
         THEN remove(credit_entries, req[r].entry_id)
         ELSE credit_entries
    /\ UNCHANGED <<customers, uuid_customers, uuid_entries>>

\* The store call a request is about to make raises (connection lost, server
\* error): nothing is written, no handler catches it, the answer is 500.  The
\* first call of a handler raising is the same for every handler (op "any").
StoreFailure(r, op) ==
    /\ IF req[r].pc = "idle"
       THEN /\ op = "any"
            /\ Step(r, Respond([Idle EXCEPT !.op = op, !.at = "idle"], 500, << >>))
       ELSE /\ op = req[r].op
            /\ Step(r, Respond([req[r] EXCEPT !.at = req[r].pc], 500, << >>))
    /\ UNCHANGED <<customers, credit_entries, uuid_customers, uuid_entries>>

\* the values of an Optional field over S
Optional(S) == {None} \cup {Some(v) : v \in S}

\* a customer body with every field left out
NoCustomer == [name |-> None, phone |-> None, address |-> None]

\* optional request fields that are left out
NoUpdate ==
    [amount |-> None, description |-> None, date |-> None,
     is_paid |-> None, paid_amount |-> None]

\* the run may receive another request, which slot r serves: the lowest free
\* slot (the slots are interchangeable)
Open(r) == started < MaxStarted /\ \A q \in 1..(r - 1) : req[q].pc # "idle"
OpenSeq == started < MaxSeqStarted
OpenChain == started < MaxChainStarted
OpenCustomers == started < MaxCustomersStarted
OpenUpdates == started < MaxUpdatesStarted

\* the steps of a request that has begun
Continue(r) ==
    \/ update_customer_update_one(r)
    \/ update_customer_find_updated(r)
    \/ delete_customer_delete_many(r)
    \/ create_credit_entry_insert_one(r)
    \/ update_entry_update_one(r)
    \/ update_entry_find_updated(r)
    \/ delete_credit_entry_delete_one(r)
    \/ update_customer_totals_find(r)
    \/ update_customer_totals_update_one(r)
    \/ get_dashboard_stats_count_entries(r)
    \/ get_dashboard_stats_find(r)
    \/ (req[r].pc # "idle" /\ StoreFailure(r, req[r].op))

\* a request arrives; the inputs are the ones the totals depend on
Begin(r) ==
    \/ Open(r) /\ create_customer(r, "n1", None, None)
    \/ Open(r) /\ RequestValidationError(r, "create_customer", NoCustomer)
    \/ Open(r) /\ get_customers(r)
    \/ Open(r) /\ \E c \in CustomerIds : get_customer(r, c)
    \/ Open(r) /\ \E c \in CustomerIds :
          update_customer_find_one(r, c, [NoCustomer EXCEPT !.name = Some("n2")])
    \/ Open(r) /\ \E c \in CustomerIds : delete_customer_delete_one(r, c)
    \/ Open(r) /\ \E c \in CustomerIds, a \in 1..MaxAmount :
          create_credit_entry_find_one(r, c, a, None, 1, None)
    \/ Open(r) /\ \E c \in CustomerIds : get_credit_entries(r, c)
    \/ Open(r) /\ \E e \in EntryIds, a \in 1..MaxAmount :
          update_credit_entry_find_one(r, e, [NoUpdate EXCEPT !.amount = Some(a)])
    \/ Open(r) /\ \E e \in EntryIds, p \in 0..MaxAmount :
          update_payment_status_find_one(r, e, [is_paid |-> p > 0, paid_amount |-> p])
    \/ Open(r) /\ \E e \in EntryIds : delete_credit_entry_find_one(r, e)
    \/ Open(r) /\ get_dashboard_stats_count_customers(r)
    \/ Open(r) /\ StoreFailure(r, "any")

\* Concurrent requests: up to MaxRequests handlers in progress, their store
\* calls interleaved in any order.
Next ==
    \E r \in Requests :
        \/ Begin(r)
        \/ Continue(r)

Spec == Init /\ [][Next]_vars

Dates == {1, 2}

\* a request arrives; the inputs are the ones the totals and the order of the
\* lists depend on
BeginChain(r) ==
    \/ OpenChain /\ create_customer(r, "n1", None, None)
    \/ OpenChain /\ RequestValidationError(r, "create_customer", NoCustomer)
    \/ OpenChain /\ get_customers(r)
    \/ OpenChain /\ \E c \in CustomerIds : get_customer(r, c)
    \/ OpenChain /\ \E c \in CustomerIds :
          update_customer_find_one(r, c, [NoCustomer EXCEPT !.name = Some("n2")])
    \/ OpenChain /\ \E c \in CustomerIds : delete_customer_delete_one(r, c)
    \/ OpenChain /\ \E c \in CustomerIds, a \in 1..MaxAmount, t \in Dates :
          create_credit_entry_find_one(r, c, a, None, t, None)
    \/ OpenChain /\ \E c \in CustomerIds : get_credit_entries(r, c)
    \/ OpenChain /\ \E e \in EntryIds, a \in 1..MaxAmount :
          update_credit_entry_find_one(r, e, [NoUpdate EXCEPT !.amount = Some(a)])
    \/ OpenChain /\ \E e \in EntryIds, p \in 0..MaxAmount :
          update_payment_status_find_one(r, e, [is_paid |-> p > 0, paid_amount |-> p])
    \/ OpenChain /\ \E e \in EntryIds : delete_credit_entry_find_one(r, e)
    \/ OpenChain /\ get_dashboard_stats_count_customers(r)
    \/ OpenChain /\ StoreFailure(r, "any")

\* One request at a time: the first slot serves every request from its first
\* step to its response before the next one arrives.
NextChain ==
    \/ BeginChain(1)
    \/ Continue(1)

SpecChain == Init /\ [][NextChain]_vars

\* the bodies of PUT /credit-entries/{entry_id}: any subset of the five fields
EntryUpdates ==
    [amount : Optional({0, MaxAmount}), description : Optional({"d2"}),
     date : Optional({2}), is_paid : Optional(BOOLEAN),
     paid_amount : Optional({0, MaxAmount})]

\* a request arrives; the inputs cover every field of a credit entry
BeginSeq(r) ==
    \/ OpenSeq /\ create_customer(r, "n1", None, None)
    \/ OpenSeq /\ RequestValidationError(r, "create_customer", NoCustomer)
    \/ OpenSeq /\ get_customers(r)
    \/ OpenSeq /\ \E c \in CustomerIds : get_customer(r, c)
    \/ OpenSeq /\ \E c \in CustomerIds :
          update_customer_find_one(r, c, [NoCustomer EXCEPT !.name = Some("n2")])
    \/ OpenSeq /\ \E c \in CustomerIds : delete_customer_delete_one(r, c)
    \/ OpenSeq /\ \E c \in CustomerIds, a \in 1..MaxAmount :
          create_credit_entry_find_one(r, c, a, Some("d1"), 1, Some("img"))
    \/ OpenSeq /\ \E c \in CustomerIds : get_credit_entries(r, c)
    \/ OpenSeq /\ \E e \in EntryIds, u \in EntryUpdates : update_credit_entry_find_one(r, e, u)
    \/ OpenSeq /\ \E e \in EntryIds, b \in BOOLEAN, p \in {0, MaxAmount} :
          update_payment_status_find_one(r, e, [is_paid |-> b, paid_amount |-> p])
    \/ OpenSeq /\ \E e \in EntryIds : delete_credit_entry_find_one(r, e)
    \/ OpenSeq /\ get_dashboard_stats_count_customers(r)
    \/ OpenSeq /\ StoreFailure(r, "any")

\* One request at a time, with inputs that cover every field of a credit
\* entry.
NextSeq ==
    \/ BeginSeq(1)
    \/ Continue(1)

SpecSeq == Init /\ [][NextSeq]_vars

\* the bodies of POST /customers and PUT /customers/{customer_id}: name missing,
\* empty or not, phone and address supplied or not
CustomerBodies ==
    [name : Optional({"", "n1"}), phone : Optional({"p1"}), address : Optional({"a1"})]

\* a request arrives; the inputs cover every field of a customer
BeginCustomers(r) ==
    \/ OpenCustomers /\ \E b \in CustomerBodies :
          CustomerCreate(b) /\ create_customer(r, b.name[1], b.phone, b.address)
    \/ OpenCustomers /\ \E b \in CustomerBodies :
          RequestValidationError(r, "create_customer", b)
    \/ OpenCustomers /\ get_customers(r)
    \/ OpenCustomers /\ \E c \in CustomerIds : get_customer(r, c)
    \/ OpenCustomers /\ \E c \in CustomerIds, b \in CustomerBodies :
          update_customer_find_one(r, c, b)
    \/ OpenCustomers /\ \E b \in CustomerBodies :
          RequestValidationError(r, "update_customer", b)
    \/ OpenCustomers /\ \E c \in CustomerIds : delete_customer_delete_one(r, c)
    \/ OpenCustomers /\ \E c \in CustomerIds, a \in 1..MaxAmount :
          create_credit_entry_find_one(r, c, a, None, 1, None)
    \/ OpenCustomers /\ \E c \in CustomerIds : get_credit_entries(r, c)
    \/ OpenCustomers /\ \E e \in EntryIds, a \in 1..MaxAmount :
          update_credit_entry_find_one(r, e, [NoUpdate EXCEPT !.amount = Some(a)])
    \/ OpenCustomers /\ \E e \in EntryIds, p \in 0..MaxAmount :
          update_payment_status_find_one(r, e, [is_paid |-> p > 0, paid_amount |-> p])
    \/ OpenCustomers /\ \E e \in EntryIds : delete_credit_entry_find_one(r, e)
    \/ OpenCustomers /\ get_dashboard_stats_count_customers(r)
    \/ OpenCustomers /\ StoreFailure(r, "any")

\* One request at a time, with inputs that cover every field of a customer.
NextCustomers ==
    \/ BeginCustomers(1)
    \/ Continue(1)

SpecCustomers == Init /\ [][NextCustomers]_vars

\* the bodies of PUT /credit-entries/{entry_id} whose supplied numbers and
\* flags are falsy in Python: amount 0, is_paid false, paid_amount 0, each
\* supplied or not, with or without a description
FalsyUpdates ==
    [amount : Optional({0}), description : Optional({"d2"}), date : {None},
     is_paid : Optional({FALSE}), paid_amount : Optional({0})]

\* a request arrives; entries are created with a description and paid in full,
\* partial updates supply falsy values
BeginUpdates(r) ==
    \/ OpenUpdates /\ create_customer(r, "n1", None, None)
    \/ OpenUpdates /\ RequestValidationError(r, "create_customer", NoCustomer)
    \/ OpenUpdates /\ get_customers(r)
    \/ OpenUpdates /\ \E c \in CustomerIds : get_customer(r, c)
    \/ OpenUpdates /\ \E c \in CustomerIds :
          update_customer_find_one(r, c, [NoCustomer EXCEPT !.name = Some("n2")])
    \/ OpenUpdates /\ \E c \in CustomerIds : delete_customer_delete_one(r, c)
    \/ OpenUpdates /\ \E c \in CustomerIds :
          create_credit_entry_find_one(r, c, MaxAmount, Some("d1"), 1, None)
    \/ OpenUpdates /\ \E c \in CustomerIds : get_credit_entries(r, c)
    \/ OpenUpdates /\ \E e \in EntryIds, u \in FalsyUpdates :
          update_credit_entry_find_one(r, e, u)
    \/ OpenUpdates /\ \E e \in EntryIds :
          update_payment_status_find_one(r, e, [is_paid |-> TRUE, paid_amount |-> MaxAmount])
    \/ OpenUpdates /\ \E e \in EntryIds : delete_credit_entry_find_one(r, e)
    \/ OpenUpdates /\ get_dashboard_stats_count_customers(r)
    \/ OpenUpdates /\ StoreFailure(r, "any")

\* One request at a time, with partial updates that supply falsy values.
NextUpdates ==
    \/ BeginUpdates(1)
    \/ Continue(1)

SpecUpdates == Init /\ [][NextUpdates]_vars

\* ------------------------------------------------------------------ properties

Mutations ==
    {"create_credit_entry", "update_credit_entry", "update_payment_status",
     "delete_credit_entry"}

\* rsp is a response with status 200 of one of the handlers ops
Success(rsp, ops) == rsp.pc = "done" /\ rsp.op \in ops /\ rsp.status = 200

\* rsp answers a request whose store call at one of the positions pcs raised
Raised(rsp, pcs) == rsp.pc = "done" /\ rsp.at \in pcs

\* slot r takes the step (every step of a request moves its position, and a
\* request that is answered at its first step is counted by started and was
\* served by the lowest free slot)
Steps(r) ==
    \/ req'[r].pc # req[r].pc
    \/ /\ req[r].pc = "idle"
       /\ started' # started
       /\ \A q \in 1..(r - 1) : req[q].pc # "idle"

\* C1 as stated: in the state in which a credit-entry mutation returns success,
\* the owning customer's cached totals are the sums over its stored entries.
C1_TotalsAfterAnyMutation ==
    (Success(response, Mutations) /\ response.customer_id \in DOMAIN customers)
        => totals_match(response.customer_id)

\* C1 amended: the same, for a mutation that ran from its first step to its
\* response with no step of another request in between.
C1_TotalsAfterSoloMutation ==
    (/\ Success(response, Mutations)
     /\ response.solo
     /\ response.customer_id \in DOMAIN customers)
        => totals_match(response.customer_id)

C1_Witness ==
    /\ Success(response, Mutations)
    /\ response.solo
    /\ response.customer_id \in DOMAIN customers
    /\ customers[response.customer_id].total_paid > 0
    /\ customers[response.customer_id].outstanding_balance > 0

\* C2: last write wins.  The totals a recalculation persists are the sums it
\* computed from the entries it read, whatever the entries are by the time it
\* writes; the witness is the lost update this makes reachable.
C2_LastWriteWins ==
    [][\A r \in Requests :
          (/\ req[r].pc = "totals_update"
           /\ req'[r].pc = "idle"
           /\ Success(response', Mutations)
           /\ req[r].customer_id \in DOMAIN customers)
          => /\ customers'[req[r].customer_id].total_credit = req[r].total_credit
             /\ customers'[req[r].customer_id].total_paid = req[r].total_paid
             /\ customers'[req[r].customer_id].outstanding_balance
                   = req[r].outstanding_balance]_vars

\* two creations for the same customer were both answered with 200, both
\* entries are stored, no request is in progress, and the cached total_credit
\* is the amount of one entry only
C2_LostUpdate ==
    /\ Success(response, {"create_credit_entry"})
    /\ \A r \in Requests : req[r].pc = "idle"
    /\ \E c \in DOMAIN customers : \E e1, e2 \in acknowledged :
          /\ e1 # e2
          /\ response.customer_id = c
          /\ find_by_customer(c) = {e1, e2}
          /\ customers[c].total_credit = credit_entries[e1].amount
          /\ customers[c].total_credit
                # SumOver(credit_entries, find_by_customer(c), "amount")

\* C3: in every reachable state every stored customer has
\* outstanding_balance = total_credit - total_paid.
C3_OutstandingIsDifference ==
    \A c \in DOMAIN customers :
        customers[c].outstanding_balance
            = customers[c].total_credit - customers[c].total_paid

C3_Witness ==
    /\ \E r \in Requests : req[r].pc \in {"totals_find", "totals_update"}
    /\ \E c \in DOMAIN customers :
          /\ customers[c].total_credit > 0
          /\ ~totals_match(c)

\* C4: the step that answers delete-customer(id) with success leaves no entry
\* with customer_id = id and keeps every entry of another customer as it was;
\* a list-by-customer(id) that follows the response returns the empty sequence.
C4_DeleteCustomerCascades ==
    [][/\ \A r \in Requests :
            (/\ req[r].pc = "delete_many"
             /\ req'[r].pc = "idle"
             /\ Success(response', {"delete_customer"}))
            => /\ \A e \in DOMAIN credit_entries' :
                     credit_entries'[e].customer_id # req[r].customer_id
               /\ \A e \in DOMAIN credit_entries :
                     credit_entries[e].customer_id # req[r].customer_id
                        => /\ e \in DOMAIN credit_entries'
                           /\ credit_entries'[e] = credit_entries[e]
       /\ (/\ Success(response, {"delete_customer"})
           /\ Success(response', {"get_credit_entries"})
           /\ response'.customer_id = response.customer_id)
          => response'.body = << >>]_vars

\* list-by-customer returns the empty sequence for a deleted customer whose
\* entry went with it
C4_Witness ==
    /\ Success(response, {"get_credit_entries"})
    /\ response.body = << >>
    /\ response.customer_id \in (1..uuid_customers) \ DOMAIN customers
    /\ uuid_entries > 0
    /\ DOMAIN credit_entries = {}

\* C5: create-entry whose customer_id matches no stored customer is answered
\* 404 at its existence check: it never reaches the insert, and the step
\* changes neither store.
C5_CreateEntryUnknownCustomer ==
    [][/\ \A r \in Requests :
            (req[r].pc = "idle" /\ req'[r].pc = "insert_one")
               => req'[r].customer_id \in DOMAIN customers
       /\ (/\ started' = started + 1
           /\ response'.pc = "done"
           /\ response'.op = "create_credit_entry")
          => /\ response'.status = 404
             /\ response'.customer_id \notin DOMAIN customers
             /\ \A r \in Requests : req'[r].pc = req[r].pc
             /\ UNCHANGED <<customers, credit_entries, uuid_entries>>]_vars

C5_Witness ==
    /\ response.pc = "done"
    /\ response.op = "create_credit_entry"
    /\ response.status = 404
    /\ DOMAIN customers # {}
    /\ DOMAIN credit_entries # {}

\* C6: the update_one of a partial update writes exactly the fields the request
\* supplied, with the supplied values, into the entry it names: every other
\* field of that entry and every other entry keep their stored values, and no
\* other step of the handler changes the entry store.
C6_PartialUpdateFrame ==
    [][\A r \in Requests :
          (Steps(r) /\ req[r].op = "update_credit_entry")
          => LET supplied == {f \in DOMAIN req[r].entry_update :
                                 req[r].entry_update[f] # None}
             IN IF req[r].pc = "update_one" /\ req'[r].pc = "find_updated"
                THEN /\ DOMAIN credit_entries' = DOMAIN credit_entries
                     /\ \A e \in DOMAIN credit_entries \ {req[r].entry_id} :
                           credit_entries'[e] = credit_entries[e]
                     /\ \A f \in DOMAIN credit_entries[req[r].entry_id] :
                           credit_entries'[req[r].entry_id][f]
                              = IF f \in supplied
                                THEN (IF f = "description"
                                      THEN req[r].entry_update[f]
                                      ELSE req[r].entry_update[f][1])
                                ELSE credit_entries[req[r].entry_id][f]
                ELSE UNCHANGED credit_entries]_vars

\* a partial update that supplied only description was answered with success:
\* the entry has the new description and its amount and image_data
C6_Witness ==
    /\ Success(response, {"update_credit_entry"})
    /\ response.entry_update = [NoUpdate EXCEPT !.description = Some("d2")]
    /\ credit_entries[response.entry_id].description = Some("d2")
    /\ credit_entries[response.entry_id].amount > 0
    /\ credit_entries[response.entry_id].image_data # None
    /\ response.body.amount = credit_entries[response.entry_id].amount

\* the entry write of the mutation answered by rsp is in the entry store
written(rsp) ==
    CASE rsp.op = "create_credit_entry" ->
            /\ rsp.entry_id \in DOMAIN credit_entries
            /\ credit_entries[rsp.entry_id].customer_id = rsp.customer_id
      [] rsp.op = "delete_credit_entry" -> rsp.entry_id \notin DOMAIN credit_entries
      [] OTHER ->
            /\ rsp.entry_id \in DOMAIN credit_entries
            /\ \A f \in DOMAIN rsp.update_data :
                  credit_entries[rsp.entry_id][f] = rsp.update_data[f]

\* C7: a mutation is answered with success only by the step that writes the
\* recalculated totals to the customer, the recalculation is entered only from
\* the entry write (or, in the update handlers, from the re-read that follows
\* it), and a get-customer that follows the response of a mutation that ran
\* alone returns totals that are the sums over the entries, the written one
\* included.
C7_RecalculatedBeforeResponse ==
    [][/\ Success(response', Mutations)
            => \E r \in Requests : req[r].pc = "totals_update" /\ req'[r].pc = "idle"
       /\ \A r \in Requests :
            (req'[r].pc = "totals_find" /\ req[r].pc # "totals_find")
               => \/ req[r].pc = "insert_one" /\ DOMAIN credit_entries' # DOMAIN credit_entries
                  \/ req[r].pc = "delete_one" /\ DOMAIN credit_entries' # DOMAIN credit_entries
                  \/ req[r].pc = "find_updated"
       /\ \A r \in Requests :
            req'[r].pc = "find_updated" => req[r].pc \in {"update_one", "find_updated"}
       /\ (/\ Success(response, Mutations)
           /\ response.solo
           /\ Success(response', {"get_customer"})
           /\ response'.customer_id = response.customer_id)
          => /\ written(response)
             /\ response'.body.total_credit
                   = SumOver(credit_entries, find_by_customer(response.customer_id), "amount")
             /\ response'.body.total_paid
                   = SumOver(credit_entries, find_by_customer(response.customer_id),
                             "paid_amount")
             /\ response'.body.outstanding_balance
                   = response'.body.total_credit - response'.body.total_paid]_vars

C7_Witness ==
    /\ Success(response, {"get_customer"})
    /\ acknowledged # {}
    /\ response.body.total_credit > 0
    /\ totals_match(response.customer_id)

\* C8: a store call of the recalculation that raises ends the request with 500
\* and the step changes neither store, so the entry write stays; and no step of
\* an entry mutation other than the successful write of the recalculation
\* changes a customer record, so the cached totals are still those from before
\* the request.
C8_RecalculationFailure ==
    [][/\ \A r \in Requests :
            (/\ req[r].pc \in {"totals_find", "totals_update"}
             /\ req'[r].pc = "idle"
             /\ Raised(response', {"totals_find", "totals_update"}))
            => /\ response'.status = 500
               /\ UNCHANGED <<customers, credit_entries>>
       /\ \A r \in Requests :
            (/\ Steps(r)
             /\ req[r].op \in Mutations \/ req'[r].op \in Mutations
                   \/ (response'.pc = "done" /\ response'.op \in Mutations)
             /\ req[r].pc # "totals_update")
            => UNCHANGED customers]_vars

\* create-entry, run alone, answered 500 from the recalculation: the entry is
\* stored and the customer's totals do not count it
C8_Witness ==
    /\ Raised(response, {"totals_find", "totals_update"})
    /\ response.status = 500
    /\ response.op = "create_credit_entry"
    /\ response.solo
    /\ response.entry_id \in DOMAIN credit_entries
    /\ drifted(response.customer_id)
    /\ customers[response.customer_id].total_credit
          = SumOver(credit_entries, find_by_customer(response.customer_id) \ {response.entry_id},
                    "amount")

\* C9: a mutation that began while its customer's cached totals differed from
\* the sums over the entries, and that ran alone to a successful response,
\* leaves the totals equal to the sums over the customer's current entries.
C9_SoloMutationRepairsDrift ==
    (/\ Success(response, Mutations)
     /\ response.solo
     /\ response.drift
     /\ response.customer_id \in DOMAIN customers)
        => totals_match(response.customer_id)

C9_Witness ==
    /\ Success(response, Mutations)
    /\ response.solo
    /\ response.drift
    /\ response.customer_id \in DOMAIN customers
    /\ find_by_customer(response.customer_id) # {}

\* C10: get-stats that ran alone returns the number of stored customers, the
\* number of stored entries and the sums of the customers' cached totals; no
\* step of get-stats changes the stores.
C10_DashboardStats ==
    [][/\ (Success(response', {"get_dashboard_stats"}) /\ response'.solo)
            => /\ response'.body.total_customers = Cardinality(DOMAIN customers')
               /\ response'.body.total_credit_entries = Cardinality(DOMAIN credit_entries')
               /\ response'.body.total_outstanding
                     = SumOver(customers', DOMAIN customers', "outstanding_balance")
               /\ response'.body.total_credit
                     = SumOver(customers', DOMAIN customers', "total_credit")
               /\ response'.body.total_paid
                     = SumOver(customers', DOMAIN customers', "total_paid")
       /\ \A r \in Requests :
            (/\ Steps(r)
             /\ req[r].op = "get_dashboard_stats" \/ req'[r].op = "get_dashboard_stats")
            => UNCHANGED <<customers, credit_entries, uuid_customers, uuid_entries>>]_vars

\* get-stats ran alone while a customer's cached totals were stale: it returns
\* the cached sum, which is not the sum over the entries
C10_Witness ==
    /\ Success(response, {"get_dashboard_stats"})
    /\ response.solo
    /\ response.body.total_customers > 0
    /\ response.body.total_credit_entries > 0
    /\ response.body.total_credit
          # SumOver(credit_entries, DOMAIN credit_entries, "amount")

\* C11: create-customer with name missing or empty is answered 422 and stores
\* no customer; with a non-empty name it is answered 200 and stores a customer
\* under an id that was not stored, with the three totals 0.
C11_CreateCustomerValidates ==
    [][(response'.pc = "done" /\ response'.op = "create_customer")
          => IF response'.status = 200
             THEN /\ response'.body.name # ""
                  /\ response'.customer_id \notin DOMAIN customers
                  /\ DOMAIN customers' = DOMAIN customers \cup {response'.customer_id}
                  /\ customers'[response'.customer_id].total_credit = 0
                  /\ customers'[response'.customer_id].total_paid = 0
                  /\ customers'[response'.customer_id].outstanding_balance = 0
             ELSE /\ response'.status = 422
                  /\ response'.update_data.name \in {None, Some("")}
                  /\ customers' = customers]_vars

\* the entry write of the update request rec changed no field of the entry it
\* found
same_entry(rec) ==
    /\ rec.op \in {"update_credit_entry", "update_payment_status"}
    /\ rec.entry # None
    /\ \A f \in DOMAIN rec.update_data : rec.entry[1][f] = rec.update_data[f]

\* C12: a recalculation that follows a recalculation of the same customer with
\* no entry write in between (it runs alone in an update request whose entry
\* write changed nothing, the cached totals being the sums when the request
\* began) leaves every customer, the three totals included, and every entry
\* as they were; the read of a recalculation changes nothing.
C12_RecalculationIdempotent ==
    [][\A r \in Requests :
         /\ (/\ req[r].pc = "totals_update"
             /\ Steps(r)
             /\ ~Raised(response', {"totals_update"})
             /\ req[r].solo
             /\ ~req[r].drift
             /\ same_entry(req[r]))
            => /\ customers' = customers
               /\ credit_entries' = credit_entries
         /\ (req[r].pc = "totals_find" /\ Steps(r))
            => /\ customers' = customers
               /\ credit_entries' = credit_entries]_vars

\* a payment update that ran alone and wrote the values the entry already had
\* is answered: the customer has a positive credit, recalculated a second time
C12_Witness ==
    /\ Success(response, {"update_payment_status"})
    /\ response.solo
    /\ ~response.drift
    /\ same_entry(response)
    /\ response.customer_id \in DOMAIN customers
    /\ customers[response.customer_id].total_credit > 0
    /\ totals_match(response.customer_id)

\* C13: update-customer that ran alone on a stored customer is answered 200
\* with name, phone and address stored as supplied (null where omitted) and
\* with created_at and the three totals as they were found; no step of an
\* update-customer changes the set of stored ids, another customer, the
\* customer's created_at or totals, or an entry; on an id that is not stored it
\* is answered 404 and changes nothing.
C13_UpdateCustomerFrame ==
    [][/\ (Success(response', {"update_customer"}) /\ response'.solo)
          => LET c == response'.customer_id
                 found == response'.customer[1]
             IN /\ c \in DOMAIN customers'
                /\ customers'[c].name = response'.update_data.name
                /\ customers'[c].phone = response'.update_data.phone
                /\ customers'[c].address = response'.update_data.address
                /\ customers'[c].created_at = found.created_at
                /\ customers'[c].total_credit = found.total_credit
                /\ customers'[c].total_paid = found.total_paid
                /\ customers'[c].outstanding_balance = found.outstanding_balance
                /\ response'.body = customers'[c]
       /\ \A r \in Requests :
            (/\ Steps(r)
             /\ req[r].op = "update_customer" \/ req'[r].op = "update_customer"
                   \/ response'.op = "update_customer")
            => /\ credit_entries' = credit_entries
               /\ DOMAIN customers' = DOMAIN customers
               /\ \A c \in DOMAIN customers :
                     /\ customers'[c].created_at = customers[c].created_at
                     /\ customers'[c].total_credit = customers[c].total_credit
                     /\ customers'[c].total_paid = customers[c].total_paid
                     /\ customers'[c].outstanding_balance = customers[c].outstanding_balance
                     /\ (c # req[r].customer_id \/ req[r].pc # "customer_update_one")
                           => customers'[c] = customers[c]
       /\ \A r \in Requests :
            (/\ req[r].pc = "idle"
             /\ Steps(r)
             /\ response'.pc = "done"
             /\ response'.op = "update_customer"
             /\ response'.status # 422
             /\ response'.customer_id \notin DOMAIN customers)
            => /\ response'.status = 404
               /\ customers' = customers
               /\ credit_entries' = credit_entries]_vars

\* a customer stored with a phone, an address and a positive credit was
\* updated with a body that leaves phone and address out
C13_Witness ==
    /\ Success(response, {"update_customer"})
    /\ response.customer[1].phone # None
    /\ response.customer[1].address # None
    /\ response.customer[1].name # response.update_data.name
    /\ response.update_data.phone = None
    /\ response.update_data.address = None
    /\ customers[response.customer_id].phone = None
    /\ customers[response.customer_id].total_credit > 0

\* the three handlers that look an entry up by its id
ByEntryId == {"update_credit_entry", "update_payment_status", "delete_credit_entry"}

\* C14: a partial update, payment update or delete that names an entry id that
\* is not stored is answered 404 by its first step, which changes neither store;
\* and a 404 of these handlers is only ever sent by the first step or by the
\* delete_one that removed nothing, never after a recalculation was entered, by
\* a step that changes neither store.
C14_UnknownEntryNotFound ==
    [][\A r \in Requests :
         /\ (/\ req[r].pc = "idle"
             /\ Steps(r)
             /\ \/ (response'.pc = "done" /\ response'.op \in ByEntryId
                       /\ response'.entry_id \notin DOMAIN credit_entries)
                \/ (req'[r].op \in ByEntryId
                       /\ req'[r].entry_id \notin DOMAIN credit_entries))
            => /\ response'.pc = "done"
               /\ response'.status = 404
               /\ customers' = customers
               /\ credit_entries' = credit_entries
         /\ (/\ Steps(r)
             /\ response'.pc = "done"
             /\ response'.op \in ByEntryId
             /\ response'.status = 404)
            => /\ req[r].pc \in {"idle", "delete_one"}
               /\ response'.entry_id \notin DOMAIN credit_entries
               /\ customers' = customers
               /\ credit_entries' = credit_entries]_vars

\* a payment update for an id that is not stored was answered 404 while a
\* customer with an entry is stored
C14_Witness ==
    /\ response.pc = "done"
    /\ response.op = "update_payment_status"
    /\ response.status = 404
    /\ response.entry_id \notin DOMAIN credit_entries
    /\ \E e \in DOMAIN credit_entries :
          /\ credit_entries[e].customer_id \in DOMAIN customers
          /\ totals_match(credit_entries[e].customer_id)

\* C15: the recalculation write of a partial update that supplies amount b for
\* an entry found with amount a (and no other paid_amount than the one found),
\* run alone for a stored customer whose cached totals were the sums when the
\* request began, raises that customer's total_credit and outstanding_balance
\* by b - a, keeps its total_paid and keeps every other customer as it was.
C15_AmountUpdateDelta ==
    [][\A r \in Requests :
         (/\ req[r].pc = "totals_update"
          /\ Steps(r)
          /\ Success(response', {"update_credit_entry"})
          /\ req[r].solo
          /\ ~req[r].drift
          /\ req[r].customer_id \in DOMAIN customers
          /\ "amount" \in DOMAIN req[r].update_data
          /\ "paid_amount" \in DOMAIN req[r].update_data
                => req[r].update_data.paid_amount = req[r].entry[1].paid_amount)
         => LET c == req[r].customer_id
                a == req[r].entry[1].amount
                b == req[r].update_data.amount
            IN /\ customers'[c].total_credit = customers[c].total_credit + (b - a)
               /\ customers'[c].outstanding_balance
                     = customers[c].outstanding_balance + (b - a)
               /\ customers'[c].total_paid = customers[c].total_paid
               /\ \A d \in DOMAIN customers \ {c} : customers'[d] = customers[d]
               /\ DOMAIN customers' = DOMAIN customers]_vars

\* a partial update that ran alone raised an entry's amount; the customer's
\* credit is now larger than the amount the entry had
C15_Witness ==
    /\ Success(response, {"update_credit_entry"})
    /\ response.solo
    /\ ~response.drift
    /\ response.customer_id \in DOMAIN customers
    /\ "amount" \in DOMAIN response.update_data
    /\ response.update_data.amount > response.entry[1].amount
    /\ customers[response.customer_id].total_credit > response.entry[1].amount
    /\ totals_match(response.customer_id)

C17_EntryIdentityImmutable ==
    [][/\ \A e \in DOMAIN credit_entries \cap DOMAIN credit_entries' :
            /\ credit_entries'[e].customer_id = credit_entries[e].customer_id
            /\ credit_entries'[e].created_at = credit_entries[e].created_at
       /\ \A e \in DOMAIN credit_entries' \ DOMAIN credit_entries : e > uuid_entries
       /\ Success(response', {"update_credit_entry", "update_payment_status"})
             => /\ response'.body.id = response'.entry_id
                /\ response'.body.customer_id = response'.entry[1].customer_id
                /\ response'.body.created_at = response'.entry[1].created_at]_vars

\* a partial update that supplied all five fields changed the entry, which
\* still has the customer_id and the created_at it was found with
C17_Witness ==
    /\ Success(response, {"update_credit_entry"})
    /\ \A f \in DOMAIN response.entry_update : response.entry_update[f] # None
    /\ response.entry_id \in DOMAIN credit_entries
    /\ \A f \in {"amount", "description", "date", "is_paid", "paid_amount"} :
          credit_entries[response.entry_id][f] # response.entry[1][f]
    /\ credit_entries[response.entry_id].customer_id = response.entry[1].customer_id
    /\ credit_entries[response.entry_id].created_at = response.entry[1].created_at
    /\ credit_entries[response.entry_id].created_at < utcnow

\* body lists, each once and as stored, min(number of ids, fetch cap) of the
\* documents ids of store, ordered by field descending
Lists(body, store, ids, field) ==
    /\ Len(body) = IF Cardinality(ids) < FetchCap THEN Cardinality(ids) ELSE FetchCap
    /\ \A i \in DOMAIN body :
          /\ body[i].id \in ids
          /\ body[i] = with_id(body[i].id, store[body[i].id])
    /\ \A i, j \in DOMAIN body : i # j => body[i].id # body[j].id
    /\ \A i, j \in DOMAIN body : i < j => body[i][field] >= body[j][field]

\* C18: list-by-customer(c) is answered at its only step with the stored
\* entries whose customer_id is c (the fetch cap at most), date descending,
\* and list-customers with the stored customers (the fetch cap at most),
\* created_at descending; the step changes neither store and enters no
\* recalculation.
C18_ListsSorted ==
    [][\A r \in Requests :
         (/\ Steps(r)
          /\ response'.pc = "done"
          /\ response'.op \in {"get_credit_entries", "get_customers"})
         => /\ req[r].pc = "idle"
            /\ response'.status = 200
            /\ customers' = customers
            /\ credit_entries' = credit_entries
            /\ IF response'.op = "get_credit_entries"
               THEN /\ Lists(response'.body, credit_entries,
                             find_by_customer(response'.customer_id), "date")
                    /\ \A i \in DOMAIN response'.body :
                          response'.body[i].customer_id = response'.customer_id
               ELSE Lists(response'.body, customers, DOMAIN customers, "created_at")]_vars

\* list-by-customer returned two entries, the one created later first because
\* its date is the later one
C18_Witness ==
    /\ Success(response, {"get_credit_entries"})
    /\ Len(response.body) = 2
    /\ response.body[1].date > response.body[2].date
    /\ response.body[1].id > response.body[2].id
    /\ customers[response.customer_id].total_credit > 0

\* no request is in progress
AtRest == \A r \in Requests : req[r].pc = "idle"

\* the stored entries whose customer is not stored
Orphans == {e \in DOMAIN credit_entries : credit_entries[e].customer_id \notin DOMAIN customers}

\* C19 as stated: whenever no request is in progress, every stored entry's
\* customer_id is the id of a stored customer, in every execution.
C19_NoOrphansAtRest == AtRest => Orphans = {}

\* C19 as amended: every stored entry's customer_id is an id create-customer
\* has generated; and whenever no request is in progress, every stored entry's
\* customer is stored, unless a delete-customer removed a customer between the
\* existence check and the insert of a create-entry for it, or the delete_many
\* of a delete-customer raised.
C19_NoOrphansUnlessRaced ==
    /\ \A e \in DOMAIN credit_entries : credit_entries[e].customer_id \in 1..uuid_customers
    /\ (AtRest /\ ~raced /\ ~cascade_failed) => Orphans = {}

\* a customer whose entry creation had been acknowledged was deleted with its
\* entries, nothing raced or failed, and no request is in progress
C19_Witness ==
    /\ AtRest
    /\ ~raced
    /\ ~cascade_failed
    /\ Success(response, {"delete_customer"})
    /\ acknowledged # {}
    /\ acknowledged \cap DOMAIN credit_entries = {}

\* C20: the write of a recalculation for a customer_id that matches no stored
\* customer changes no customer, and the set of stored customer ids changes
\* only by the insert of create-customer, which adds the id it generated, and
\* by the delete_one of delete-customer, which removes the id it was given.
C20_RecalculationNeverCreates ==
    [][\A r \in Requests :
         Steps(r)
         => /\ (req[r].pc = "totals_update" /\ req[r].customer_id \notin DOMAIN customers)
                  => customers' = customers
            /\ DOMAIN customers' # DOMAIN customers
                  => \/ /\ req[r].pc = "idle"
                        /\ Success(response', {"create_customer"})
                        /\ DOMAIN customers' = DOMAIN customers \cup {response'.customer_id}
                     \/ /\ req[r].pc = "idle"
                        /\ req'[r].op = "delete_customer"
                        /\ req'[r].pc = "delete_many"
                        /\ DOMAIN customers' = DOMAIN customers \ {req'[r].customer_id}]_vars

\* an entry mutation was answered with success after recalculating for a
\* customer that had been deleted in the meantime: the customer is not stored
C20_Witness ==
    /\ Success(response, Mutations)
    /\ response.customer_id \in 1..uuid_customers
    /\ response.customer_id \notin DOMAIN customers
    /\ response.total_credit > 0

\* C21: a field of a partial entry update counts as supplied exactly when its
\* value is not null. When the update is answered with success, every field
\* that was supplied, 0 and false included, is stored with the supplied value,
\* every field that was null or left out keeps the value the entry had, so a
\* stored description is never reset to null, and the cached totals of the
\* entry's customer, if it is stored, are the sums over the entries as they
\* are stored now.
C21_NullMeansUnsupplied ==
    Success(response, {"update_credit_entry"})
        => LET u == response.entry_update
               before == response.entry[1]
               e == response.entry_id
           IN /\ e \in DOMAIN credit_entries
              /\ \A f \in DOMAIN u :
                    credit_entries[e][f]
                       = IF u[f] = None THEN before[f]
                         ELSE IF f = "description" THEN u[f] ELSE u[f][1]
              /\ before.description # None => credit_entries[e].description # None
              /\ response.customer_id \in DOMAIN customers
                    => totals_match(response.customer_id)

\* a paid entry with a description was updated with amount 0, is_paid false
\* and paid_amount 0 and no description: the three values are stored, the
\* description is the old one and the customer's totals are zero
C21_Witness ==
    /\ Success(response, {"update_credit_entry"})
    /\ response.entry_update =
          [NoUpdate EXCEPT !.amount = Some(0), !.is_paid = Some(FALSE),
                           !.paid_amount = Some(0)]
    /\ response.entry[1].amount > 0
    /\ response.entry[1].is_paid
    /\ response.entry[1].paid_amount > 0
    /\ response.entry[1].description = Some("d1")
    /\ credit_entries[response.entry_id].amount = 0
    /\ ~credit_entries[response.entry_id].is_paid
    /\ credit_entries[response.entry_id].paid_amount = 0
    /\ credit_entries[response.entry_id].description = Some("d1")
    /\ customers[response.customer_id].total_credit = 0
    /\ customers[response.customer_id].total_paid = 0

====
